---- MODULE Spec2Model ----
(***************************************************************************)
(* Model of UsersService (services/users/src/services/service.users.ts):  *)
(* registration, login, access-token refresh, health check and revoke     *)
(* over the users collection and the secrets (session record) collection. *)
(*                                                                         *)
(* Every handler is a function from the state of the two collections and  *)
(* the clock to a new state and a response.  Spec runs one request at a    *)
(* time, every handler as one step.  SpecConc runs two requests at once    *)
(* and splits refresh and revoke at their awaits on the secrets collection.*)
(***************************************************************************)
EXTENDS Integers, Sequences, FiniteSets, TLC

\* ---------------------------------------------------------------- bounds
MaxUsers == 2
MaxSecrets == 2
MaxTime == 3
MaxConcTime == 2

Emails == {"a@x.com", "b@x.com"}
Passwords == {[plain |-> "pw1"], [plain |-> "pw2"]}
Procs == {1, 2}

\* ------------------------------------------------- http-status-codes used
OK == 200
BAD_REQUEST == 400
FORBIDDEN == 403

VARIABLES
    users,      \* users collection: sequence of documents, _id = position
    secrets,    \* secrets collection: set of session records
    nextSid,    \* next _id the secrets collection hands out (monotonic)
    now,        \* the clock read by new Date() / moment(), in days
    last,       \* the last request that wrote to a collection, its response and,
                \* for a refresh or revoke, the record as it was before
    pc,         \* SpecConc: where each in-flight request stands
    loc,        \* SpecConc: the locals of each in-flight request
    res,        \* SpecConc: the response to each requester's last refresh or
                \* revoke, until the requester sends the next one
    lastUpd     \* SpecConc: whose findByIdAndUpdate reached which record last

vars == <<users, secrets, nextSid, now, last, pc, loc, res, lastUpd>>
concVars == <<pc, loc, res, lastUpd>>

\* the collections and the clock, as the handlers see them
St == [users |-> users, secrets |-> secrets, nextSid |-> nextSid, now |-> now]

\* ------------------------------------------------------------- @node/pkg
NoData == [none |-> TRUE]

\* apiResponse(stat_code, stat_message, data)
apiResponse(code, msg, data) == [stat_code |-> code, stat_message |-> msg, data |-> data]

\* Bcrypt.hashPassword: a one-way transform, never the plaintext itself
hashPassword(p) == [bcrypt |-> p.plain]

\* Bcrypt.comparePassword(plain, hash).success
comparePassword(p, h) == h = hashPassword(p)

\* expiredAt(n, 'days'): the clock plus n days; the clock counts days
expiredAt(n, t) == t + n

\* dateFormat: an order-preserving rendering of a timestamp
dateFormat(t) == t

\* JsonWebToken.signToken: a token is determined by its claims and issue time
signToken(payload, t) ==
    [accessToken |-> [typ |-> "access", id |-> payload.id, email |-> payload.email,
                      role |-> payload.role, iat |-> t],
     refreshToken |-> [typ |-> "refresh", id |-> payload.id, email |-> payload.email,
                       role |-> payload.role, iat |-> t]]

\* JsonWebToken.refreshToken: a new access token only
refreshToken(payload, t) ==
    [typ |-> "access", id |-> payload.id, email |-> payload.email,
     role |-> payload.role, iat |-> t]

RoleName == "user"

\* a token no call has issued
BogusToken == [typ |-> "access", id |-> 0, email |-> "nobody", role |-> RoleName, iat |-> 0]

\* deletedAt: null, or the date of the soft delete
NullDate == <<>>
DateOf(t) == <<t>>

\* ------------------------------------------------------ collection queries
\* users.model.findOne({ email, deletedAt: null }): first match, 0 for null
UsersFindOneByEmail(U, email) ==
    LET m == {i \in 1..Len(U) : U[i].email = email /\ U[i].deletedAt = NullDate}
    IN IF m = {} THEN 0 ELSE CHOOSE i \in m : \A j \in m : i <= j

\* variant: findOne({ _id }), the deletedAt filter left out
UsersFindOneByIdAny(U, id) ==
    IF id \in 1..Len(U) THEN id ELSE 0

\* users.model.findOne({ _id, deletedAt: null })
UsersFindOneById(U, id) ==
    IF id \in 1..Len(U) /\ U[id].deletedAt = NullDate THEN id ELSE 0

Max(S) == CHOOSE x \in S : \A y \in S : y <= x

\* secrets.model.findOne({ accessToken, resourceType: 'login' }).sort({ _id: -1 })
SecretsFindByAccessToken(S, tok) ==
    LET m == {r._id : r \in {x \in S : x.accessToken = tok /\ x.resourceType = "login"}}
    IN IF m = {} THEN 0 ELSE Max(m)

\* variant: the subject's record is picked by expiry, sort({ expiredAt: -1 })
SecretsFindByResourceByExpiry(S, id) ==
    LET m == {x \in S : x.resourceBy = id}
        top == {r \in m : \A q \in m : q.expiredAt <= r.expiredAt}
    IN IF m = {} THEN 0 ELSE Max({r._id : r \in top})

\* secrets.model.findOne({ resourceBy }).sort({ _id: -1 })
SecretsFindByResourceBy(S, id) ==
    LET m == {r._id : r \in {x \in S : x.resourceBy = id}}
    IN IF m = {} THEN 0 ELSE Max(m)

HasSecret(S, id) == \E r \in S : r._id = id

SecretById(S, id) == CHOOSE r \in S : r._id = id

\* variant: the update is merged into the document, the later expiry kept
FindByIdAndUpdateMerge(S, id, f) ==
    {IF r._id = id
       THEN [r EXCEPT !.accessToken = f.accessToken, !.resourceType = f.resourceType,
                      !.resourceBy = f.resourceBy,
                      !.expiredAt = IF f.expiredAt > @ THEN f.expiredAt ELSE @]
       ELSE r : r \in S}

\* secrets.model.findByIdAndUpdate(id, fields): one atomic write per document,
\* nothing written when no document has the id
FindByIdAndUpdate(S, id, f) ==
    {IF r._id = id
       THEN [r EXCEPT !.accessToken = f.accessToken, !.resourceType = f.resourceType,
                      !.resourceBy = f.resourceBy, !.expiredAt = f.expiredAt]
       ELSE r : r \in S}

\* secrets.model.findByIdAndDelete(id)
FindByIdAndDelete(S, id) == {r \in S : r._id # id}

\* ------------------------------------------------------------ request bodies
\* DTORegister / DTOUsers, DTOLogin, DTOHealthToken / DTORevokeToken / DTOUsersId
Bodies == [email : Emails, password : {[plain |-> "pw1"]}, active : BOOLEAN]
LoginBodies == [email : Emails, password : Passwords]
Undefined == [undefined |-> TRUE]
IdBodies == {[id |-> i] : i \in 1..MaxUsers} \cup {Undefined}

\* the access tokens a caller can present: the stored ones and an unknown one
TokenBodies(S) == {[accessToken |-> r.accessToken] : r \in S} \cup {[accessToken |-> BogusToken]}

NewUser(U, body) ==
    [_id |-> Len(U) + 1, email |-> body.email, password |-> body.password,
     active |-> body.active, deletedAt |-> NullDate, role |-> RoleName]

Payload(U, i) == [id |-> U[i]._id, email |-> U[i].email, role |-> U[i].role]

\* a handler's outcome: the state it leaves, its response, the document it wrote
Out(st, r, id) == [st |-> st, res |-> r, id |-> id]

\* ---------------------------------------------------------------- handlers
\* variant: the email is not looked up before the account is created
registerUsersNoCheck(st, body) ==
    LET hashed == [body EXCEPT !.password = hashPassword(body.password)]
    IN Out([st EXCEPT !.users = Append(@, NewUser(@, hashed))],
           apiResponse(OK, "Register new user account success", NoData),
           Len(st.users) + 1)

registerUsers(st, body) ==
    LET checkUser == UsersFindOneByEmail(st.users, body.email)
        hashed == [body EXCEPT !.password = hashPassword(body.password)]
    IN IF checkUser # 0
         THEN Out(st, apiResponse(BAD_REQUEST, "Email already taken", NoData), 0)
         ELSE Out([st EXCEPT !.users = Append(@, NewUser(@, hashed))],
                  apiResponse(OK, "Register new user account success", NoData),
                  Len(st.users) + 1)

\* variant: a login replaces the subject's records instead of adding one
loginUsersUpsert(st, body) ==
    LET getUser == UsersFindOneByEmail(st.users, body.email)
        token == signToken(Payload(st.users, getUser), st.now)
        doc == [_id |-> st.nextSid, accessToken |-> token.accessToken,
                refreshToken |-> token.refreshToken, resourceType |-> "login",
                resourceBy |-> st.users[getUser]._id, expiredAt |-> expiredAt(1, st.now)]
        loginRes == [accessToken |-> token.accessToken, refreshToken |-> token.refreshToken,
                     accessTokenExpired |-> expiredAt(1, st.now),
                     refreshTokenExpired |-> expiredAt(30, st.now),
                     role |-> st.users[getUser].role]
    IN IF getUser = 0
         THEN Out(st, apiResponse(BAD_REQUEST, "Email is not registered", NoData), 0)
       ELSE IF ~st.users[getUser].active
         THEN Out(st, apiResponse(BAD_REQUEST,
                                  "User account is not active, please contact admin", NoData), 0)
       ELSE IF ~comparePassword(body.password, st.users[getUser].password)
         THEN Out(st, apiResponse(BAD_REQUEST, "Email or password failed", NoData), 0)
       ELSE Out([st EXCEPT !.secrets = {r \in @ : r.resourceBy # getUser} \cup {doc},
                           !.nextSid = @ + 1],
                apiResponse(OK, "Login success", loginRes), st.nextSid)

loginUsers(st, body) ==
    LET getUser == UsersFindOneByEmail(st.users, body.email)
        token == signToken(Payload(st.users, getUser), st.now)
        isAccessTokenExpired == expiredAt(1, st.now)
        isRefreshTokenExpired == expiredAt(30, st.now)
        doc == [_id |-> st.nextSid, accessToken |-> token.accessToken,
                refreshToken |-> token.refreshToken, resourceType |-> "login",
                resourceBy |-> st.users[getUser]._id, expiredAt |-> isAccessTokenExpired]
        loginRes == [accessToken |-> token.accessToken, refreshToken |-> token.refreshToken,
                     accessTokenExpired |-> isAccessTokenExpired,
                     refreshTokenExpired |-> isRefreshTokenExpired,
                     role |-> st.users[getUser].role]
    IN IF getUser = 0
         THEN Out(st, apiResponse(BAD_REQUEST, "Email is not registered", NoData), 0)
       ELSE IF ~st.users[getUser].active
         THEN Out(st, apiResponse(BAD_REQUEST,
                                  "User account is not active, please contact admin", NoData), 0)
       ELSE IF ~comparePassword(body.password, st.users[getUser].password)
         THEN Out(st, apiResponse(BAD_REQUEST, "Email or password failed", NoData), 0)
       ELSE Out([st EXCEPT !.secrets = @ \cup {doc}, !.nextSid = @ + 1],
                apiResponse(OK, "Login success", loginRes), st.nextSid)

\* variant: the expiry test of line 76 with >= for >
refreshFindGe(st, body) ==
    LET getAccessToken == SecretsFindByAccessToken(st.secrets, body.accessToken)
    IN IF getAccessToken = 0
         THEN Out(st, apiResponse(BAD_REQUEST, "AccessToken is not exist", NoData), 0)
       ELSE IF dateFormat(SecretById(st.secrets, getAccessToken).expiredAt) >= dateFormat(st.now)
         THEN Out(st, apiResponse(BAD_REQUEST, "Your accessToken is not expired", NoData), 0)
       ELSE Out(st, apiResponse(OK, "", NoData), getAccessToken)

\* lines 73-76: the lookup by access token and the expiry test.
\* id = 0: the response is final; otherwise the _id of getAccessToken
refreshFind(st, body) ==
    LET getAccessToken == SecretsFindByAccessToken(st.secrets, body.accessToken)
    IN IF getAccessToken = 0
         THEN Out(st, apiResponse(BAD_REQUEST, "AccessToken is not exist", NoData), 0)
       ELSE IF dateFormat(SecretById(st.secrets, getAccessToken).expiredAt) > dateFormat(st.now)
         THEN Out(st, apiResponse(BAD_REQUEST, "Your accessToken is not expired", NoData), 0)
       ELSE Out(st, apiResponse(OK, "", NoData), getAccessToken)

\* lines 78-89: the subject is read again and the token and expiry computed.
\* id = 0: getUser is null and getUser._id threw; the catch answers 400
refreshSign(st, getAccessToken) ==
    LET getUser == UsersFindOneById(st.users, getAccessToken.resourceBy)
        token == refreshToken(Payload(st.users, getUser), st.now)
        isAccessTokenExpired == expiredAt(1, st.now)
    IN IF getUser = 0
         THEN Out(st, apiResponse(BAD_REQUEST, "Cannot read properties of null", NoData), 0)
         ELSE Out(st, apiResponse(OK, "Refresh accessToken success",
                                  [accessToken |-> token,
                                   accessTokenExpired |-> isAccessTokenExpired,
                                   role |-> st.users[getUser].role]),
                  getUser)

\* variant: the refreshed session is inserted as a new record
refreshUpdateInsert(st, getAccessToken, getUser, tokenRes) ==
    Out([st EXCEPT !.secrets =
             {r \in @ : r._id # getAccessToken._id}
             \cup {[getAccessToken EXCEPT !._id = st.nextSid,
                                          !.accessToken = tokenRes.data.accessToken,
                                          !.expiredAt = tokenRes.data.accessTokenExpired]},
                   !.nextSid = @ + 1],
        tokenRes, st.nextSid)

\* lines 90-103: the update by _id, whose result is not looked at
refreshUpdate(st, getAccessToken, getUser, tokenRes) ==
    Out([st EXCEPT !.secrets =
             FindByIdAndUpdate(@, getAccessToken._id,
                               [accessToken |-> tokenRes.data.accessToken,
                                resourceType |-> "login",
                                resourceBy |-> st.users[getUser]._id,
                                expiredAt |-> tokenRes.data.accessTokenExpired])],
        tokenRes, getAccessToken._id)

refreshTokenUsers(st, body) ==
    LET found == refreshFind(st, body)
        getAccessToken == SecretById(st.secrets, found.id)
        signed == refreshSign(st, getAccessToken)
    IN IF found.id = 0 THEN found
       ELSE IF signed.id = 0 THEN signed
       ELSE refreshUpdate(st, getAccessToken, signed.id, signed.res)

\* variant: the health check deletes the record it finds expired
healthTokenUsersPurge(st, body) ==
    LET getAccessToken == SecretsFindByResourceBy(st.secrets, body.id)
    IN IF body = Undefined
         THEN Out(st, apiResponse(BAD_REQUEST, "AccessToken expired", NoData), 0)
       ELSE IF getAccessToken = 0
         THEN Out(st, apiResponse(BAD_REQUEST, "AccessToken is not exist", NoData), 0)
       ELSE IF dateFormat(SecretById(st.secrets, getAccessToken).expiredAt) < dateFormat(st.now)
         THEN Out([st EXCEPT !.secrets = FindByIdAndDelete(@, getAccessToken)],
                  apiResponse(BAD_REQUEST, "AccessToken expired", NoData), 0)
       ELSE Out(st, apiResponse(OK, "AccessToken healthy", NoData), 0)

\* variant: the expiry test of line 115 with <= for <
healthTokenUsersLe(st, body) ==
    LET getAccessToken == SecretsFindByResourceBy(st.secrets, body.id)
    IN IF body = Undefined
         THEN Out(st, apiResponse(BAD_REQUEST, "AccessToken expired", NoData), 0)
       ELSE IF getAccessToken = 0
         THEN Out(st, apiResponse(BAD_REQUEST, "AccessToken is not exist", NoData), 0)
       ELSE IF dateFormat(SecretById(st.secrets, getAccessToken).expiredAt) <= dateFormat(st.now)
         THEN Out(st, apiResponse(BAD_REQUEST, "AccessToken expired", NoData), 0)
       ELSE Out(st, apiResponse(OK, "AccessToken healthy", NoData), 0)

healthTokenUsers(st, body) ==
    LET getAccessToken == SecretsFindByResourceBy(st.secrets, body.id)
    IN IF body = Undefined
         THEN Out(st, apiResponse(BAD_REQUEST, "AccessToken expired", NoData), 0)
       ELSE IF getAccessToken = 0
         THEN Out(st, apiResponse(BAD_REQUEST, "AccessToken is not exist", NoData), 0)
       ELSE IF dateFormat(SecretById(st.secrets, getAccessToken).expiredAt) < dateFormat(st.now)
         THEN Out(st, apiResponse(BAD_REQUEST, "AccessToken expired", NoData), 0)
       ELSE Out(st, apiResponse(OK, "AccessToken healthy", NoData), 0)

\* variant: the expiry test of line 129 with <= for <
revokeFindLe(st, body) ==
    LET getAccessToken == SecretsFindByResourceBy(st.secrets, body.id)
    IN IF body = Undefined
         THEN Out(st, apiResponse(BAD_REQUEST, "AccessToken expired", NoData), 0)
       ELSE IF getAccessToken = 0
         THEN Out(st, apiResponse(BAD_REQUEST, "AccessToken is not exist", NoData), 0)
       ELSE IF dateFormat(SecretById(st.secrets, getAccessToken).expiredAt) <= dateFormat(st.now)
         THEN Out(st, apiResponse(BAD_REQUEST, "AccessToken expired", NoData), 0)
       ELSE Out(st, apiResponse(OK, "", NoData), getAccessToken)

\* variant: the expiry test of line 129 with > for <
revokeFindGt(st, body) ==
    LET getAccessToken == SecretsFindByResourceBy(st.secrets, body.id)
    IN IF body = Undefined
         THEN Out(st, apiResponse(BAD_REQUEST, "AccessToken expired", NoData), 0)
       ELSE IF getAccessToken = 0
         THEN Out(st, apiResponse(BAD_REQUEST, "AccessToken is not exist", NoData), 0)
       ELSE IF dateFormat(SecretById(st.secrets, getAccessToken).expiredAt) > dateFormat(st.now)
         THEN Out(st, apiResponse(BAD_REQUEST, "AccessToken expired", NoData), 0)
       ELSE Out(st, apiResponse(OK, "", NoData), getAccessToken)

\* lines 125-129: the lookup by subject and the expiry test.
\* id = 0: the response is final; otherwise the _id of getAccessToken
revokeFind(st, body) ==
    LET getAccessToken == SecretsFindByResourceBy(st.secrets, body.id)
    IN IF body = Undefined
         THEN Out(st, apiResponse(BAD_REQUEST, "AccessToken expired", NoData), 0)
       ELSE IF getAccessToken = 0
         THEN Out(st, apiResponse(BAD_REQUEST, "AccessToken is not exist", NoData), 0)
       ELSE IF dateFormat(SecretById(st.secrets, getAccessToken).expiredAt) < dateFormat(st.now)
         THEN Out(st, apiResponse(BAD_REQUEST, "AccessToken expired", NoData), 0)
       ELSE Out(st, apiResponse(OK, "", NoData), getAccessToken)

\* variant: the record is reported revoked and left in the store
revokeDeleteKeeps(st, id) ==
    IF ~HasSecret(st.secrets, id)
      THEN Out(st, apiResponse(BAD_REQUEST, "Revoke accessToken failed", NoData), 0)
      ELSE Out(st, apiResponse(OK, "Revoke accessToken success", NoData), id)

\* variant: the result of the delete is not looked at
revokeDeleteUnchecked(st, id) ==
    Out([st EXCEPT !.secrets = FindByIdAndDelete(@, id)],
        apiResponse(OK, "Revoke accessToken success", NoData), id)

\* lines 131-134: the delete by _id; deleteAccessToken is null when it is gone
revokeDelete(st, id) ==
    IF ~HasSecret(st.secrets, id)
      THEN Out(st, apiResponse(BAD_REQUEST, "Revoke accessToken failed", NoData), 0)
      ELSE Out([st EXCEPT !.secrets = FindByIdAndDelete(@, id)],
               apiResponse(OK, "Revoke accessToken success", NoData), id)

revokeTokenUsers(st, body) ==
    LET found == revokeFind(st, body)
    IN IF found.id = 0 THEN found ELSE revokeDelete(st, found.id)

\* line 143 tests !checkUser: the account is created when the email is taken
createUsers(st, body) ==
    LET checkUser == UsersFindOneByEmail(st.users, body.email)
        hashed == [body EXCEPT !.password = hashPassword(body.password)]
    IN IF checkUser = 0
         THEN Out(st, apiResponse(BAD_REQUEST, "Email already taken", NoData), 0)
         ELSE Out([st EXCEPT !.users = Append(@, NewUser(@, hashed))],
                  apiResponse(OK, "Create new users account success", NoData),
                  Len(st.users) + 1)

\* line 182 passes one argument: { _id, deletedAt: new Date() } is the filter
\* and there is no update, so the call is a lookup and writes nothing
deleteUsersById(st, params) ==
    LET getUser == UsersFindOneById(st.users, params.id)
        deleteUser == {i \in 1..Len(st.users) :
                         /\ st.users[i]._id = params.id
                         /\ st.users[i].deletedAt = DateOf(st.now)}
    IN IF getUser = 0
         THEN Out(st, apiResponse(BAD_REQUEST, "Users data is not exist", NoData), 0)
       ELSE IF deleteUser = {}
         THEN Out(st, apiResponse(FORBIDDEN, "Deleted users data failed", NoData), 0)
       ELSE Out(st, apiResponse(OK, "Deleted users data success", NoData), 0)

\* ------------------------------------------------------------------ Init
NoCall == [op |-> "none", arg |-> NoData, res |-> apiResponse(OK, "", NoData), id |-> 0,
           doc |-> NoData]
IdleLoc == [none |-> TRUE]
NoRes == [op |-> "none", id |-> 0, res |-> apiResponse(OK, "", NoData), stale |-> FALSE,
          removed |-> 0, applied |-> FALSE]

Init ==
    /\ users = <<>>
    /\ secrets = {}
    /\ nextSid = 1
    /\ now = 0
    /\ last = NoCall
    /\ pc = [p \in Procs |-> "idle"]
    /\ loc = [p \in Procs |-> IdleLoc]
    /\ res = [p \in Procs |-> NoRes]
    /\ lastUpd = [id |-> 0, proc |-> 0]

\* ------------------------------------------------- one request at a time
\* the collections take the handler's outcome; the model stops at its bounds
Apply(out) ==
    /\ Len(out.st.users) <= MaxUsers
    /\ out.st.nextSid <= MaxSecrets + 1
    /\ users' = out.st.users
    /\ secrets' = out.st.secrets
    /\ nextSid' = out.st.nextSid
    /\ UNCHANGED now

Commit(op, arg, out) ==
    /\ Apply(out)
    /\ last' = IF out.st = St THEN last
               ELSE [op |-> op, arg |-> arg, res |-> out.res, id |-> out.id,
                     doc |-> IF HasSecret(secrets, out.id) /\ op \in {"refresh", "revoke"}
                               THEN SecretById(secrets, out.id) ELSE NoData]

\* the clock moves on between requests
Tick ==
    /\ now < MaxTime
    /\ now' = now + 1
    /\ UNCHANGED <<users, secrets, nextSid, last, concVars>>

Register == \E body \in Bodies :
    Commit("register", body, registerUsers(St, body)) /\ UNCHANGED concVars

Login == \E body \in LoginBodies :
    Commit("login", body, loginUsers(St, body)) /\ UNCHANGED concVars

RefreshToken == \E body \in TokenBodies(secrets) :
    Commit("refresh", body, refreshTokenUsers(St, body)) /\ UNCHANGED concVars

HealthCheck == \E body \in IdBodies :
    Commit("health", body, healthTokenUsers(St, body)) /\ UNCHANGED concVars

Revoke == \E body \in IdBodies :
    Commit("revoke", body, revokeTokenUsers(St, body)) /\ UNCHANGED concVars

CreateUsers == \E body \in Bodies :
    Commit("create", body, createUsers(St, body)) /\ UNCHANGED concVars

DeleteUsersById == \E params \in IdBodies \ {Undefined} :
    Commit("delete", params, deleteUsersById(St, params)) /\ UNCHANGED concVars

Next ==
    \/ Tick
    \/ Register
    \/ Login
    \/ RefreshToken
    \/ HealthCheck
    \/ Revoke

\* the session lifecycle: register, login, refresh, health check, revoke
Spec == Init /\ [][Next]_vars

\* the session lifecycle together with the account administration handlers
NextCrud ==
    \/ Next
    \/ CreateUsers
    \/ DeleteUsersById

SpecCrud == Init /\ [][NextCrud]_vars

\* --------------------------------------------------- two requests at once
\* Registration and login have one write and run as one step.  Refresh and
\* revoke read a record, are suspended, and write by _id.
Idle(p) == pc[p] = "idle"

Finish(p, r) ==
    /\ pc' = [pc EXCEPT ![p] = "idle"]
    /\ loc' = [loc EXCEPT ![p] = IdleLoc]
    /\ res' = [res EXCEPT ![p] = r]

\* the races are over one subject's records: one active subject registers
ConcBodies == {b \in Bodies : b.active /\ b.email = "a@x.com"}
ConcLoginBodies == {b \in LoginBodies : b.email = "a@x.com"}

ConcTick ==
    /\ now < MaxConcTime
    /\ now' = now + 1
    /\ UNCHANGED <<users, secrets, nextSid, last, concVars>>

ConcRegister == \E body \in ConcBodies :
    Apply(registerUsers(St, body)) /\ UNCHANGED <<last, concVars>>

ConcLogin == \E body \in ConcLoginBodies :
    Apply(loginUsers(St, body)) /\ UNCHANGED <<last, concVars>>

\* lines 73-76, up to the await of line 78
RefreshFind(p) == \E body \in TokenBodies(secrets) :
    LET found == refreshFind(St, body)
    IN /\ Idle(p)
       /\ found.id # 0
       /\ pc' = [pc EXCEPT ![p] = "refreshSign"]
       /\ loc' = [loc EXCEPT ![p] = [getAccessToken |-> SecretById(secrets, found.id)]]
       /\ res' = [res EXCEPT ![p] = NoRes]
       /\ UNCHANGED <<users, secrets, nextSid, now, last, lastUpd>>

\* a refresh that line 75 or 76 turns down writes nothing
RefreshRejected(p) == \E body \in TokenBodies(secrets) :
    /\ Idle(p)
    /\ refreshFind(St, body).id = 0
    /\ UNCHANGED vars

\* lines 78-89, up to the await of line 90
RefreshSign(p) ==
    LET signed == refreshSign(St, loc[p].getAccessToken)
    IN /\ pc[p] = "refreshSign"
       /\ IF signed.id = 0
            THEN Finish(p, [op |-> "refresh", id |-> loc[p].getAccessToken._id,
                            res |-> signed.res, stale |-> FALSE, removed |-> 0,
                            applied |-> FALSE])
            ELSE /\ pc' = [pc EXCEPT ![p] = "refreshUpdate"]
                 /\ loc' = [loc EXCEPT ![p] = [getAccessToken |-> loc[p].getAccessToken,
                                               getUser |-> signed.id,
                                               tokenRes |-> signed.res]]
                 /\ UNCHANGED res
       /\ UNCHANGED <<users, secrets, nextSid, now, last, lastUpd>>

\* lines 90-103.  stale: the record is no longer the one this request read;
\* removed: how many records the store lost in this step; applied: the write
\* found its document
RefreshUpdate(p) ==
    LET out == refreshUpdate(St, loc[p].getAccessToken, loc[p].getUser, loc[p].tokenRes)
    IN /\ pc[p] = "refreshUpdate"
       /\ secrets' = out.st.secrets
       /\ lastUpd' = IF HasSecret(secrets, out.id) THEN [id |-> out.id, proc |-> p]
                     ELSE lastUpd
       /\ Finish(p, [op |-> "refresh", id |-> out.id, res |-> out.res,
                     stale |-> loc[p].getAccessToken \notin secrets,
                     removed |-> Cardinality(secrets) - Cardinality(out.st.secrets),
                     applied |-> HasSecret(secrets, loc[p].getAccessToken._id)])
       /\ UNCHANGED <<users, nextSid, now, last>>

\* lines 125-129, up to the await of line 131
RevokeFind(p) == \E body \in IdBodies :
    LET found == revokeFind(St, body)
    IN /\ Idle(p)
       /\ found.id # 0
       /\ pc' = [pc EXCEPT ![p] = "revokeDelete"]
       /\ loc' = [loc EXCEPT ![p] = [getAccessToken |-> SecretById(secrets, found.id)]]
       /\ res' = [res EXCEPT ![p] = NoRes]
       /\ UNCHANGED <<users, secrets, nextSid, now, last, lastUpd>>

\* a revoke that line 125, 128 or 129 turns down writes nothing
RevokeRejected(p) == \E body \in IdBodies :
    /\ Idle(p)
    /\ revokeFind(St, body).id = 0
    /\ UNCHANGED vars

\* lines 131-134.  removed: how many records the delete took out
RevokeDelete(p) ==
    LET out == revokeDelete(St, loc[p].getAccessToken._id)
    IN /\ pc[p] = "revokeDelete"
       /\ secrets' = out.st.secrets
       /\ Finish(p, [op |-> "revoke", id |-> loc[p].getAccessToken._id, res |-> out.res,
                     stale |-> loc[p].getAccessToken \notin secrets,
                     removed |-> Cardinality(secrets) - Cardinality(out.st.secrets),
                     applied |-> HasSecret(secrets, loc[p].getAccessToken._id)])
       /\ UNCHANGED <<users, nextSid, now, last, lastUpd>>

NextConc ==
    \/ ConcTick
    \/ ConcRegister
    \/ ConcLogin
    \/ \E p \in Procs : RefreshFind(p)
    \/ \E p \in Procs : RefreshRejected(p)
    \/ \E p \in Procs : RefreshSign(p)
    \/ \E p \in Procs : RefreshUpdate(p)
    \/ \E p \in Procs : RevokeFind(p)
    \/ \E p \in Procs : RevokeRejected(p)
    \/ \E p \in Procs : RevokeDelete(p)

SpecConc == Init /\ [][NextConc]_vars

\* ------------------------------------------------------------ error kinds
\* the error kinds of the specification, by the message the handler answers with
NotFound == "AccessToken is not exist"
TokenNotExpired == "Your accessToken is not expired"
TokenExpired == "AccessToken expired"
RevokeFailed == "Revoke accessToken failed"
Conflict == "Email already taken"

Succeeds(out) == out.res.stat_code = OK
FailsWith(out, kind) == out.res.stat_code # OK /\ out.res.stat_message = kind

SubjectIds == 1..Len(users)
RecordsOf(S, id) == {r \in S : r.resourceBy = id}

\* ====================================================================== C1
\* C1: whenever the last completed write is a successful Revoke(subjectId),
\* a HealthCheck(subjectId) issued next fails with NotFound.
C1_RevokeThenHealthNotFound ==
    last.op = "revoke" => FailsWith(healthTokenUsers(St, last.arg), NotFound)

\* ====================================================================== C2
\* C2 as stated: HealthCheck(subjectId) succeeds if and only if the store holds
\* at least one record of the subject with expiredAt >= now.
C2_HealthIffAnyLiveRecord ==
    \A body \in IdBodies \ {Undefined} :
        Succeeds(healthTokenUsers(St, body))
            <=> \E r \in RecordsOf(secrets, body.id) : r.expiredAt >= now

\* C2 amended: HealthCheck(subjectId) succeeds if and only if the subject has a
\* record and the one inserted last (greatest _id) has expiredAt >= now.
C2_HealthIffLatestLive ==
    \A body \in IdBodies \ {Undefined} :
        Succeeds(healthTokenUsers(St, body))
            <=> \E r \in RecordsOf(secrets, body.id) :
                    /\ \A q \in RecordsOf(secrets, body.id) : q._id <= r._id
                    /\ r.expiredAt >= now

\* the latest record of a subject has expired while an older one, refreshed
\* since, has not, and the health check answers TokenExpired
C2_Witness ==
    \E body \in IdBodies \ {Undefined} :
        /\ FailsWith(healthTokenUsers(St, body), TokenExpired)
        /\ \E r \in RecordsOf(secrets, body.id) : r.expiredAt >= now
        /\ last.op = "refresh"

C4_LoginFailuresIndistinguishable ==
    \A b1, b2 \in LoginBodies :
        LET u == UsersFindOneByEmail(users, b2.email)
        IN (/\ UsersFindOneByEmail(users, b1.email) = 0
            /\ u # 0
            /\ users[u].active
            /\ ~comparePassword(b2.password, users[u].password))
           => loginUsers(St, b1).res = loginUsers(St, b2).res

\* ====================================================================== C5
\* C5: once an email is registered, a Register with that email fails with
\* Conflict and leaves the collections as they are; no stored credential is a
\* plaintext password, and the last registered one is the hash of the password
\* that was sent.
C5_RegisterConflictAndHash ==
    /\ \A i \in SubjectIds : \A body \in Bodies :
          body.email = users[i].email =>
              /\ FailsWith(registerUsers(St, body), Conflict)
              /\ registerUsers(St, body).st = St
    /\ \A i \in SubjectIds : users[i].password \notin Passwords
    /\ last.op = "register" =>
          /\ users[last.id].password # last.arg.password
          /\ comparePassword(last.arg.password, users[last.id].password)

\* a registration has succeeded and there is room for another subject
C5_Witness ==
    /\ last.op = "register"
    /\ Len(users) = 1
    /\ Succeeds(registerUsers(St, [last.arg EXCEPT !.email = "b@x.com"]))

\* ====================================================================== C6
\* C6: from any state, for a new email: Register succeeds, Login succeeds,
\* RefreshToken(token) at once fails with TokenNotExpired, and with the clock
\* more than one day on RefreshToken(token) succeeds with another access token
\* and the stored refresh token as it was, Revoke(subjectId) succeeds and
\* HealthCheck(subjectId) fails with NotFound.
C6_Scenario ==
    \A body \in {b \in Bodies : b.active /\ UsersFindOneByEmail(users, b.email) = 0} :
      \A days \in 2..3 :
        LET s1 == registerUsers(St, body)
            s2 == loginUsers(s1.st, [email |-> body.email, password |-> body.password])
            tok == [accessToken |-> s2.res.data.accessToken]
            s3 == refreshTokenUsers(s2.st, tok)
            s4 == [s3.st EXCEPT !.now = @ + days]
            s5 == refreshTokenUsers(s4, tok)
            s6 == revokeTokenUsers(s5.st, [id |-> s1.id])
            s7 == healthTokenUsers(s6.st, [id |-> s1.id])
        IN /\ Succeeds(s1)
           /\ Succeeds(s2)
           /\ FailsWith(s3, TokenNotExpired)
           /\ Succeeds(s5)
           /\ s5.res.data.accessToken # tok.accessToken
           /\ \E r \in s5.st.secrets :
                 /\ r._id = s2.id
                 /\ r.accessToken = s5.res.data.accessToken
                 /\ r.refreshToken = s2.res.data.refreshToken
           /\ Succeeds(s6)
           /\ FailsWith(s7, NotFound)

\* the run has happened: the one record ever inserted was refreshed more than
\* a day after the login and then revoked, and its subject has no record left
C6_Witness ==
    /\ last.op = "revoke"
    /\ nextSid = 2
    /\ last.doc.accessToken.iat > last.doc.refreshToken.iat + 1
    /\ secrets = {}
    /\ FailsWith(healthTokenUsers(St, last.arg), NotFound)

\* ====================================================================== C7
\* C7: a Login that succeeds adds exactly one record, of type "login", of the
\* subject, expiring one day from now, with an _id above every other, so that
\* it is the subject's latest; every record there was is still there as it
\* was.  A Login that fails leaves the collections as they are.
C7_LoginInsertsOne ==
    \A body \in LoginBodies :
        LET out == loginUsers(St, body)
        IN IF Succeeds(out)
             THEN \E new \in out.st.secrets :
                    /\ new \notin secrets
                    /\ out.st.secrets = secrets \cup {new}
                    /\ \A r \in secrets : r._id < new._id
                    /\ new.resourceType = "login"
                    /\ new.resourceBy = UsersFindOneByEmail(users, body.email)
                    /\ new.expiredAt = now + 1
                    /\ SecretsFindByResourceBy(out.st.secrets, new.resourceBy) = new._id
                    /\ out.st.users = users
             ELSE out.st = St

\* a login has succeeded for a subject that had a record already
C7_Witness ==
    /\ last.op = "login"
    /\ \E r \in secrets : r._id = last.id
    /\ \E r \in secrets : r._id < last.id /\ r.resourceBy = SecretById(secrets, last.id).resourceBy

\* ====================================================================== C8
\* C8: a RefreshToken that succeeds rewrites accessToken and expiredAt of the
\* record it looked up and nothing else: that record keeps its _id,
\* refreshToken, resourceBy and resourceType, every other record is as it was,
\* none is added or removed, and no _id changes (so neither does the order).
C8_RefreshInPlace ==
    \A body \in TokenBodies(secrets) :
        LET out == refreshTokenUsers(St, body)
        IN Succeeds(out) =>
             \E old \in secrets, new \in out.st.secrets :
                /\ old._id = out.id
                /\ old.accessToken = body.accessToken
                /\ new = [old EXCEPT !.accessToken = out.res.data.accessToken,
                                     !.expiredAt = out.res.data.accessTokenExpired]
                /\ out.st.secrets = (secrets \ {old}) \cup {new}
                /\ Cardinality(out.st.secrets) = Cardinality(secrets)
                /\ out.st.users = users
                /\ out.st.nextSid = nextSid

\* a refresh has rewritten one record while the store holds another one
C8_Witness ==
    /\ last.op = "refresh"
    /\ \E r \in secrets : r._id = last.id /\ r.accessToken = last.res.data.accessToken
    /\ Cardinality(secrets) >= 2

\* ====================================================================== C9
\* C9: when the last revokes of both requesters read the same record (so both
\* read it before either deleted it), exactly one of them succeeded, the other
\* failed with RevokeFailed, and between them they removed exactly one record,
\* the one they read.
C9_RevokeRaceOneWins ==
    (/\ res[1].op = "revoke"
     /\ res[2].op = "revoke"
     /\ res[1].id = res[2].id)
    => /\ \E p \in Procs : \E q \in Procs \ {p} :
             /\ res[p].res.stat_code = OK
             /\ res[q].res.stat_code # OK
             /\ res[q].res.stat_message = RevokeFailed
       /\ res[1].removed + res[2].removed = 1
       /\ ~HasSecret(secrets, res[1].id)

\* both revokes of one record are answered, while another record is stored
C9_Witness ==
    /\ res[1].op = "revoke"
    /\ res[2].op = "revoke"
    /\ res[1].id = res[2].id
    /\ res[1].res.stat_code # res[2].res.stat_code
    /\ secrets # {}

\* ===================================================================== C10
\* C10: when the last refreshes of both requesters succeeded on the same
\* record, the record (if it is still stored) holds the accessToken and the
\* expiredAt of the request whose update reached it last, and neither update
\* added or removed a record.
C10_RefreshRaceLastWriterWins ==
    (/\ res[1].op = "refresh"
     /\ res[2].op = "refresh"
     /\ res[1].res.stat_code = OK
     /\ res[2].res.stat_code = OK
     /\ res[1].id = res[2].id)
    => /\ res[1].removed = 0
       /\ res[2].removed = 0
       /\ \A r \in secrets :
             (r._id = res[1].id /\ lastUpd.id = r._id) =>
                 /\ lastUpd.proc \in Procs
                 /\ r.accessToken = res[lastUpd.proc].res.data.accessToken
                 /\ r.expiredAt = res[lastUpd.proc].res.data.accessTokenExpired

\* both refreshes passed the lookup and the expiry test before either wrote
\* (the later writer found the record changed), they wrote different values,
\* and the record is stored
C10_Witness ==
    /\ res[1].op = "refresh"
    /\ res[2].op = "refresh"
    /\ res[1].res.stat_code = OK
    /\ res[2].res.stat_code = OK
    /\ res[1].id = res[2].id
    /\ res[1].res.data # res[2].res.data
    /\ \E p \in Procs : res[p].stale /\ lastUpd = [id |-> res[p].id, proc |-> p]
    /\ HasSecret(secrets, res[1].id)

\* ===================================================================== C11
\* C11: Login, RefreshToken, HealthCheck and Revoke are safe to retry: a call
\* that succeeded, repeated at once with the same arguments, leaves the store
\* as the single call left it.
C11_RetryLeavesStore ==
    /\ \A body \in LoginBodies :
         LET once == loginUsers(St, body)
         IN Succeeds(once) => loginUsers(once.st, body).st.secrets = once.st.secrets
    /\ \A body \in TokenBodies(secrets) :
         LET once == refreshTokenUsers(St, body)
         IN Succeeds(once) => refreshTokenUsers(once.st, body).st.secrets = once.st.secrets
    /\ \A body \in IdBodies :
         LET once == healthTokenUsers(St, body)
         IN Succeeds(once) => healthTokenUsers(once.st, body).st.secrets = once.st.secrets
    /\ \A body \in IdBodies :
         LET once == revokeTokenUsers(St, body)
         IN Succeeds(once) => revokeTokenUsers(once.st, body).st.secrets = once.st.secrets

\* ===================================================================== C12
\* the session of a subject is its latest record: none, live or expired
SessionOf(st, id) ==
    LET latest == SecretsFindByResourceBy(st.secrets, id)
    IN IF latest = 0 THEN "NoSession"
       ELSE IF SecretById(st.secrets, latest).expiredAt < st.now THEN "Expired"
       ELSE "Active"

\* the clock moves on by one day
ClockPasses(st) == [st EXCEPT !.now = @ + 1]

Moves(st, to, id) == SessionOf(st, id) # SessionOf(to, id)
Edge(st, to, id) == <<SessionOf(st, id), SessionOf(to, id)>>

\* C12: a subject's session moves only along NoSession -> Active (Login),
\* Active -> Expired (clock), Expired -> Active (RefreshToken) and
\* Expired -> NoSession (Revoke), and Revoke takes an Expired session to
\* NoSession.
C12_SessionEdgesAsDrawn ==
    /\ \A body \in LoginBodies :
         LET to == loginUsers(St, body).st
         IN \A id \in SubjectIds :
              Moves(St, to, id) => Edge(St, to, id) = <<"NoSession", "Active">>
    /\ \A id \in SubjectIds :
         Moves(St, ClockPasses(St), id)
           => Edge(St, ClockPasses(St), id) = <<"Active", "Expired">>
    /\ \A body \in TokenBodies(secrets) :
         LET to == refreshTokenUsers(St, body).st
         IN \A id \in SubjectIds :
              Moves(St, to, id) => Edge(St, to, id) = <<"Expired", "Active">>
    /\ \A body \in IdBodies :
         LET to == revokeTokenUsers(St, body).st
         IN \A id \in SubjectIds :
              Moves(St, to, id) => Edge(St, to, id) = <<"Expired", "NoSession">>
    /\ \A id \in SubjectIds :
         SessionOf(St, id) = "Expired" => Succeeds(revokeTokenUsers(St, [id |-> id]))

\* C12 (amended): Login takes NoSession or Expired to Active, the clock takes
\* Active to Expired, RefreshToken takes Expired to Active, and Revoke takes
\* Active to NoSession or, when an older record is left, to that record's
\* state; Revoke of an Expired session fails with TokenExpired and leaves the
\* store.
C12_SessionEdgesOfCode ==
    /\ \A body \in LoginBodies :
         LET to == loginUsers(St, body).st
         IN to # St => \A id \in SubjectIds :
              Moves(St, to, id)
                => Edge(St, to, id) \in {<<"NoSession", "Active">>, <<"Expired", "Active">>}
    /\ \A id \in SubjectIds :
         Moves(St, ClockPasses(St), id)
           => Edge(St, ClockPasses(St), id) = <<"Active", "Expired">>
    /\ \A body \in TokenBodies(secrets) :
         LET to == refreshTokenUsers(St, body).st
         IN to # St => \A id \in SubjectIds :
              Moves(St, to, id) => Edge(St, to, id) = <<"Expired", "Active">>
    /\ \A body \in IdBodies :
         LET out == revokeTokenUsers(St, body)
         IN /\ out.st # St => \A id \in SubjectIds :
                 Moves(St, out.st, id)
                   => /\ body = [id |-> id]
                      /\ Edge(St, out.st, id)
                           \in {<<"Active", "NoSession">>, <<"Active", "Expired">>}
            /\ (body # Undefined /\ body.id \in SubjectIds
                  /\ SessionOf(St, body.id) = "Expired")
                 => FailsWith(out, TokenExpired) /\ out.st = St

\* a Revoke has taken a live session to NoSession while another subject's
\* session is expired
C12_Witness ==
    /\ last.op = "revoke"
    /\ Succeeds(last)
    /\ last.doc.expiredAt >= now
    /\ SessionOf(St, last.arg.id) = "NoSession"
    /\ \E id \in SubjectIds : SessionOf(St, id) = "Expired"

\* ===================================================================== C13
\* the record of a subject with the greatest _id
LatestOf(S, id) == CHOOSE r \in RecordsOf(S, id) : \A q \in RecordsOf(S, id) : q._id <= r._id

\* C13: HealthCheck and Revoke of a subject decide on the record with the
\* greatest _id among the subject's records, whatever the expiredAt of the
\* older ones: both answer as they would with that record alone in the
\* store, and Revoke deletes that record and no other.
C13_LatestRecordDecides ==
    \A body \in IdBodies \ {Undefined} :
        RecordsOf(secrets, body.id) # {} =>
            LET latest == LatestOf(secrets, body.id)
                alone == [St EXCEPT !.secrets = {latest}]
                health == healthTokenUsers(St, body)
                revoke == revokeTokenUsers(St, body)
            IN /\ health.res = healthTokenUsers(alone, body).res
               /\ revoke.res = revokeTokenUsers(alone, body).res
               /\ Succeeds(health) <=> latest.expiredAt >= now
               /\ Succeeds(revoke) <=> latest.expiredAt >= now
               /\ ~Succeeds(health) => FailsWith(health, TokenExpired)
               /\ ~Succeeds(revoke) => FailsWith(revoke, TokenExpired)
               /\ revoke.st.secrets = IF Succeeds(revoke) THEN secrets \ {latest}
                                      ELSE secrets

\* a Revoke has deleted the latest record of a subject whose older record,
\* refreshed since, expires later and is still in the store
C13_Witness ==
    /\ last.op = "revoke"
    /\ Succeeds(last)
    /\ \E q \in RecordsOf(secrets, last.arg.id) :
          /\ q._id < last.doc._id
          /\ q.expiredAt > last.doc.expiredAt
    /\ \A r \in secrets : r._id # last.doc._id

\* ===================================================================== C14
\* The subject directory is owned outside the service: a subject's document
\* gets its deletedAt set there, the session records stay.
DirectorySoftDelete == \E id \in 1..Len(users) :
    /\ users[id].deletedAt = NullDate
    /\ users' = [users EXCEPT ![id].deletedAt = DateOf(now)]
    /\ UNCHANGED <<secrets, nextSid, now, last, concVars>>

NextDir ==
    \/ ConcTick
    \/ ConcRegister
    \/ ConcLogin
    \/ RefreshToken
    \/ Revoke
    \/ DirectorySoftDelete

\* the session lifecycle over a directory whose subjects can be soft-deleted
SpecDir == Init /\ [][NextDir]_vars

\* the store with no subject left in the directory
NoSubjects(st) == [st EXCEPT !.users = <<>>]

\* C14: RefreshToken on an expired record whose subject is soft-deleted or no
\* longer exists answers an error without a token and leaves the store as it
\* was.
C14_RefreshWithoutSubjectFails ==
    \A body \in TokenBodies(secrets) :
        LET found == refreshFind(St, body)
            out == refreshTokenUsers(St, body)
            gone == refreshTokenUsers(NoSubjects(St), body)
        IN found.id # 0 =>
             /\ users[SecretById(secrets, found.id).resourceBy].deletedAt # NullDate
                  => /\ ~Succeeds(out)
                     /\ out.res.data = NoData
                     /\ out.st = St
             /\ ~Succeeds(gone)
             /\ gone.res.data = NoData
             /\ gone.st = NoSubjects(St)

\* an expired record is in the store and its subject is soft-deleted
C14_Witness ==
    \E r \in secrets :
        /\ r.expiredAt <= now
        /\ users[r.resourceBy].deletedAt # NullDate
        /\ refreshFind(St, [accessToken |-> r.accessToken]).id = r._id
        /\ ~Succeeds(refreshTokenUsers(St, [accessToken |-> r.accessToken]))

\* ===================================================================== C15
\* C15: no two Session Records of the store hold the same accessToken.
C15_AccessTokenUnique ==
    \A r \in secrets : \A q \in secrets :
        r._id # q._id => r.accessToken # q.accessToken

\* ===================================================================== C16
\* lines 18-19: the lookup by email.  id = 0: no account holds the email
registerFind(st, body) ==
    LET checkUser == UsersFindOneByEmail(st.users, body.email)
    IN IF checkUser # 0
         THEN Out(st, apiResponse(BAD_REQUEST, "Email already taken", NoData), checkUser)
         ELSE Out(st, apiResponse(OK, "", NoData), 0)

\* lines 21-26: the password is hashed and the account created
registerCreate(st, body) ==
    LET hashed == [body EXCEPT !.password = hashPassword(body.password)]
    IN Out([st EXCEPT !.users = Append(@, NewUser(@, hashed))],
           apiResponse(OK, "Register new user account success", NoData),
           Len(st.users) + 1)

\* lines 18-19, up to the await of line 23
RegisterFind(p) == \E body \in Bodies :
    /\ Idle(p)
    /\ registerFind(St, body).id = 0
    /\ pc' = [pc EXCEPT ![p] = "registerCreate"]
    /\ loc' = [loc EXCEPT ![p] = [body |-> body]]
    /\ res' = [res EXCEPT ![p] = NoRes]
    /\ UNCHANGED <<users, secrets, nextSid, now, last, lastUpd>>

\* line 19 turns the request down
RegisterRejected(p) == \E body \in Bodies :
    LET found == registerFind(St, body)
    IN /\ Idle(p)
       /\ found.id # 0
       /\ Finish(p, [NoRes EXCEPT !.op = "register", !.res = found.res])
       /\ UNCHANGED <<users, secrets, nextSid, now, last, lastUpd>>

\* lines 21-26
RegisterCreate(p) ==
    LET out == registerCreate(St, loc[p].body)
    IN /\ pc[p] = "registerCreate"
       /\ Len(out.st.users) <= MaxUsers
       /\ users' = out.st.users
       /\ Finish(p, [NoRes EXCEPT !.op = "register", !.id = out.id, !.res = out.res])
       /\ UNCHANGED <<secrets, nextSid, now, last, lastUpd>>

NextReg ==
    \/ \E p \in Procs : RegisterFind(p)
    \/ \E p \in Procs : RegisterRejected(p)
    \/ \E p \in Procs : RegisterCreate(p)

\* two requesters register, each request split at its await
SpecReg == Init /\ [][NextReg]_vars

\* C16: at most one subject that is not deleted exists per email, also when
\* the lookup and the create of two Register calls interleave.
C16_OneSubjectPerEmail ==
    \A i \in 1..Len(users) : \A j \in 1..Len(users) :
        (i # j /\ users[i].deletedAt = NullDate /\ users[j].deletedAt = NullDate)
            => users[i].email # users[j].email

\* ===================================================================== C17
\* C17: a RefreshToken request answered with success and an access token has
\* applied its update to a record of the store, also when a Revoke ran between
\* its lookup and its update.
C17_RefreshSuccessWasApplied ==
    \A p \in Procs :
        (/\ res[p].op = "refresh"
         /\ res[p].res.stat_code = OK)
        => res[p].applied

\* ===================================================================== C18
\* the record r alone in the store, at the clock value of the state
Alone(r) == [St EXCEPT !.secrets = {r}]

\* the expiry tests of lines 76, 115 and 129 on one record
Refreshable(r) == refreshFind(Alone(r), [accessToken |-> r.accessToken]).id # 0
Healthy(r) == Succeeds(healthTokenUsers(Alone(r), [id |-> r.resourceBy]))
Revocable(r) == revokeFind(Alone(r), [id |-> r.resourceBy]).id # 0

\* C18: for every record and clock value the refresh test or the health and
\* revoke test passes; the refresh test passes when expiredAt <= now, the
\* health and revoke test when expiredAt >= now, and both pass exactly when
\* expiredAt = now.
C18_ExpiryChecksCover ==
    \A r \in secrets :
        /\ Refreshable(r) \/ Healthy(r)
        /\ Healthy(r) <=> Revocable(r)
        /\ Refreshable(r) <=> r.expiredAt <= now
        /\ Healthy(r) <=> r.expiredAt >= now
        /\ (Refreshable(r) /\ Healthy(r)) <=> r.expiredAt = now

\* the clock stands at a stored record's expiredAt and the record passes the
\* refresh test and the revoke test, while another record passes only one
C18_Witness ==
    /\ \E r \in secrets :
          /\ r.expiredAt = now
          /\ Refreshable(r)
          /\ Revocable(r)
    /\ \E q \in secrets : Refreshable(q) /\ ~Healthy(q)

\* ===================================================================== C19
\* C19: HealthCheck never writes to the store, and a Login, RefreshToken or
\* Revoke that answers an error leaves the store as it was when the call
\* started; the delete of Revoke that finds no record writes nothing either.
C19_ErrorsLeaveStore ==
    /\ \A body \in IdBodies : healthTokenUsers(St, body).st = St
    /\ \A body \in LoginBodies :
         LET out == loginUsers(St, body)
         IN ~Succeeds(out) => out.st = St
    /\ \A body \in TokenBodies(secrets) :
         LET out == refreshTokenUsers(St, body)
         IN ~Succeeds(out) => out.st = St
    /\ \A body \in IdBodies :
         LET out == revokeTokenUsers(St, body)
         IN ~Succeeds(out) => out.st = St
    /\ \A id \in 1..(MaxSecrets + 1) :
         LET out == revokeDelete(St, id)
         IN ~Succeeds(out) => FailsWith(out, RevokeFailed) /\ out.st = St

\* the store holds records while a login is turned down for its password, a
\* login for an inactive account, a refresh with TokenNotExpired, a revoke
\* with TokenExpired and a revoke with NotFound
C19_Witness ==
    /\ secrets # {}
    /\ \E body \in LoginBodies :
          loginUsers(St, body).res.stat_message = "Email or password failed"
    /\ \E body \in LoginBodies :
          loginUsers(St, body).res.stat_message
              = "User account is not active, please contact admin"
    /\ \E body \in TokenBodies(secrets) :
          FailsWith(refreshTokenUsers(St, body), TokenNotExpired)
    /\ \E body \in IdBodies \ {Undefined} :
          FailsWith(revokeTokenUsers(St, body), TokenExpired)
    /\ FailsWith(revokeTokenUsers(St, Undefined), TokenExpired)
    /\ \E id \in 1..(MaxSecrets + 1) : FailsWith(revokeDelete(St, id), RevokeFailed)

====
